---- MODULE Spec2Model ----
(***************************************************************************)
(* Model of app.py: the insurance-claim pipeline process_claim_run_agents, *)
(* its helper invoke_agent and the "Process Claim" button handler.         *)
(*                                                                         *)
(* A run is a single coroutine.  Each action below is the code that runs   *)
(* from the resumption of one await (with the outcome the awaited call     *)
(* produced) up to the point where the next await is issued; pc names      *)
(* the await that is pending.  Outcomes of the external calls (credential, *)
(* client, client.agents.get_agent, agent.get_response) are chosen by the  *)
(* environment.  Leaving the two `async with` blocks is assumed not to     *)
(* raise; st.write and logging calls have no effect on the run's state.    *)
(***************************************************************************)
EXTENDS Naturals, Sequences, FiniteSets, TLC

(* ---------------------------------------------------------------- bounds *)
\* number of times the "Process Claim" button is pressed
MaxRuns == 2

(* ------------------------------------------------------------- constants *)
CLAIM_QUERY == "A customer holding Policy 2 is requesting damages of 4000 euros for claim type B. The customer states that these costs are due to being rear ended with their car, requiring costs to replace the rear bumper for their car."

JSON_FORMAT == "\nPlease provide a valid JSON response (no markdown formatting, just JSON) with the following structure:\n{\n  \"policy_assessor\": {\n    \"policy_number\": \"value\",\n    \"claim_type\": \"value\",\n    \"damage_claim\": \"value\"\n  },\n  \"fraud_detector\": {\n    \"claim_description\": \"value\"\n  }\n}"

AGENTS_AND_QUERIES ==
    [ ClaimHandlerAgent   |-> [id |-> "asst_8WPO5fEmxYN96N2yAoIjbrDb"],
      PolicyAssessorAgent |-> [id |-> "asst_eUiaOd5KjushG1semhHqtZtX"],
      FraudDetectionAgent |-> [id |-> "asst_6dHVA9CV9BH3NAlootUQoj23"],
      ClaimEvaluatorAgent |-> [id |-> "asst_k2syPJidqJUINBz7g1jvzssN"] ]

\* mutant: the fallback text is an empty JSON object
Sentinel_EmptyObject == "{}"

\* the text invoke_agent returns when the agent call raises
Sentinel == "Error invoking agent."

\* results["error"] of the early return after the failed clarification
FatalParseError == "Clarification attempt failed, stop process."

clarification_query == "The output provided does not appear to be valid JSON." \o "Please provide a valid JSON response following the specified structure."

(* ---------------------------------------------------- decoded JSON values *)
\* Python values produced by json.loads, tagged with their Python type.
JNone == [kind |-> "NoneType"]

JStr(s) == [kind |-> "str", s |-> s]

JList == [kind |-> "list"]

JDict(m) == [kind |-> "dict", m |-> m]

EmptyDict == JDict([k \in {} |-> JNone])

\* a local that has not been assigned yet
Unset == [kind |-> "unset"]

JSONDecodeError == [kind |-> "JSONDecodeError"]

(* ------------------------------------------------- texts agents may send *)
TxtFull == "{\"policy_assessor\":{\"policy_number\":\"2\",\"claim_type\":\"B\",\"damage_claim\":\"4000\"},\"fraud_detector\":{\"claim_description\":\"rear-ended, bumper replacement\"}}"

TxtNoDamage == "{\"policy_assessor\":{\"policy_number\":\"2\",\"claim_type\":\"B\"},\"fraud_detector\":{\"claim_description\":\"rear-ended, bumper replacement\"}}"

TxtEmptySubs == "{\"policy_assessor\":{},\"fraud_detector\":{}}"

TxtOnlyPolicy == "{\"policy_assessor\":{\"policy_number\":\"2\",\"claim_type\":\"B\",\"damage_claim\":\"4000\"}}"

TxtEmptyObject == "{}"

TxtNullField == "{\"policy_assessor\":{\"policy_number\":null,\"claim_type\":[],\"damage_claim\":\"4000\"},\"fraud_detector\":{\"claim_description\":\"rear-ended, bumper replacement\"}}"

TxtPolicyNotObject == "{\"policy_assessor\":null,\"fraud_detector\":{\"claim_description\":\"rear-ended, bumper replacement\"}}"

TxtFraudNotObject == "{\"policy_assessor\":{\"policy_number\":\"2\",\"claim_type\":\"B\",\"damage_claim\":\"4000\"},\"fraud_detector\":\"rear-ended, bumper replacement\"}"

TxtArray == "[]"

TxtNull == "null"

TxtProse == "Sure! Here is the claim you asked for: policy 2, type B."

TxtMarkdown == "json: {\"policy_assessor\":{},\"fraud_detector\":{}} (end)"

TxtCovered == "The customer is covered for claim type B up to 5000 euros."

TxtNoRedFlags == "No red flags found in the claim description."

\* texts that json.loads accepts
ValidJsonTexts ==
    { TxtFull, TxtNoDamage, TxtEmptySubs, TxtOnlyPolicy, TxtEmptyObject,
      TxtNullField, TxtPolicyNotObject, TxtFraudNotObject, TxtArray, TxtNull }

\* texts that json.loads rejects
InvalidJsonTexts == { TxtProse, TxtMarkdown, Sentinel, TxtCovered, TxtNoRedFlags }

\* what the ClaimHandler agent may answer
HandlerTexts == ValidJsonTexts \cup { TxtProse, TxtMarkdown }

\* what the other three agents may answer
AssessmentTexts == { TxtCovered, TxtNoRedFlags }

PolicyFields == [ policy_number |-> JStr("2"), claim_type |-> JStr("B"), damage_claim |-> JStr("4000") ]

FraudFields == [ claim_description |-> JStr("rear-ended, bumper replacement") ]

\* mutant: the decoder drops damage_claim
json_loads_DropsField(s) ==
    CASE s = TxtFull ->
           JDict([ policy_assessor |-> JDict([ policy_number |-> JStr("2"), claim_type |-> JStr("B") ]),
                   fraud_detector |-> JDict(FraudFields) ])
      [] s = TxtEmptyObject -> EmptyDict
      [] OTHER -> JSONDecodeError

\* json.loads on the texts above: the decoded value, or JSONDecodeError
json_loads(s) ==
    CASE s = TxtFull ->
           JDict([ policy_assessor |-> JDict(PolicyFields), fraud_detector |-> JDict(FraudFields) ])
      [] s = TxtNoDamage ->
           JDict([ policy_assessor |-> JDict([ policy_number |-> JStr("2"), claim_type |-> JStr("B") ]),
                   fraud_detector |-> JDict(FraudFields) ])
      [] s = TxtEmptySubs ->
           JDict([ policy_assessor |-> EmptyDict, fraud_detector |-> EmptyDict ])
      [] s = TxtOnlyPolicy ->
           JDict([ policy_assessor |-> JDict(PolicyFields) ])
      [] s = TxtEmptyObject -> EmptyDict
      [] s = TxtNullField ->
           JDict([ policy_assessor |-> JDict([ policy_number |-> JNone, claim_type |-> JList,
                                               damage_claim |-> JStr("4000") ]),
                   fraud_detector |-> JDict(FraudFields) ])
      [] s = TxtPolicyNotObject ->
           JDict([ policy_assessor |-> JNone, fraud_detector |-> JDict(FraudFields) ])
      [] s = TxtFraudNotObject ->
           JDict([ policy_assessor |-> JDict(PolicyFields),
                   fraud_detector |-> JStr("rear-ended, bumper replacement") ])
      [] s = TxtArray -> JList
      [] s = TxtNull -> JNone
      [] OTHER -> JSONDecodeError

\* mutant: a decoded value that is not a dict is treated as a decode failure
DecodeFails_Strict(p) == p = JSONDecodeError \/ p.kind # "dict"

\* mutant: the decoded value is thrown away and a clarification always follows
DecodeFails_Always(p) == TRUE

\* `except json.JSONDecodeError` catches the outcome of json.loads
DecodeFails(p) == p = JSONDecodeError

\* does the value have a .get method (is it a dict)?
HasGet(v) == v.kind = "dict"

\* mutant: the default is ignored, a missing key yields None
DictGet_NoDefault(v, key, default) == IF key \in DOMAIN (v.m) THEN (v.m)[key] ELSE JNone

\* dict.get(key, default) on a dict
DictGet(v, key, default) == IF key \in DOMAIN (v.m) THEN (v.m)[key] ELSE default

\* str(e) of the AttributeError raised by v.get when v is not a dict
AttributeErrorText(v) == ("'" \o (v.kind)) \o "' object has no attribute 'get'"

\* how an f-string renders a decoded value
Format(v) ==
    CASE v.kind = "str" -> v.s
      [] v.kind = "NoneType" -> "None"
      [] v.kind = "list" -> "[]"
      [] OTHER -> "{}"

(* ------------------------------------------------------------ the state *)
VARIABLES
    pc,                      \* the await the run is suspended at, or "idle"
    runs,                    \* number of button presses so far
    custom_claim_query,      \* argument of process_claim_run_agents
    results,                 \* the result dict, as a sequence of [key, val] in insertion order
    held,                    \* the async-with resources currently entered
    structured_claim_json,   \* local: first ClaimHandler answer
    clarification_output,    \* local: answer to the clarification query
    parsed_claim,            \* local: the decoded claim
    policy_query,            \* local
    policy_assessment,       \* local
    fraud_query,             \* local
    fraud_assessment,        \* local
    evaluator_query,         \* local
    view,                    \* what the page shows after the run
    calls,                   \* log of agent.get_response calls: [agent, query]
    outcomes,                \* log of how each of those calls ended
    resolves,                \* log of client.agents.get_agent calls (agent ids)
    decodes,                 \* number of json.loads calls in this run
    raised,                  \* exceptions that reached the except clause of line 175
    acquired,                \* log of the async-with resources entered in this run
    script,                  \* what each external call of this run has answered, in call order
    replay,                  \* the answers of the deterministic stub this run is replayed against, or << >>
    previous                 \* the result the previous run returned against that stub, or << >>

vars == << pc, runs, custom_claim_query, results, held, structured_claim_json,
           clarification_output, parsed_claim, policy_query, policy_assessment,
           fraud_query, fraud_assessment, evaluator_query, view, calls, outcomes, resolves,
           decodes, raised, acquired, script, replay, previous >>

\* a text local that has not been assigned yet
Unassigned == "<unassigned>"

\* the claim texts the user may submit in the text area
Queries == { CLAIM_QUERY, "Policy 7: hail damage to the roof, 900 euros, claim type A." }

\* str(e) of the faults agent.get_response may raise
InvocationFaults == { "ServiceResponseError: the agent run failed" }

\* str(e) of the faults the external services may raise
ExternalFaults == { "ServiceRequestError: connection failed", "HttpResponseError: (404) agent not found" }

(* ------------------------------------------------------ the result dict *)
Has(d, k) == \E i \in 1..Len(d) : d[i].key = k

Get(d, k) == d[CHOOSE i \in 1..Len(d) : d[i].key = k].val

Keys(d) == [ i \in 1..Len(d) |-> d[i].key ]

\* mutant: the labels of the stage outputs carry the number of the run
Put_RunNumbered(d, k, v) ==
    LET label == IF k = "error" THEN k ELSE (k \o " #") \o ToString(runs)
    IN  IF Has(d, label)
        THEN [ i \in 1..Len(d) |-> IF d[i].key = label THEN [key |-> label, val |-> v] ELSE d[i] ]
        ELSE Append(d, [key |-> label, val |-> v])

\* d[k] = v : a new key goes last, an existing key keeps its position
Put(d, k, v) ==
    IF Has(d, k)
    THEN [ i \in 1..Len(d) |-> IF d[i].key = k THEN [key |-> k, val |-> v] ELSE d[i] ]
    ELSE Append(d, [key |-> k, val |-> v])

\* results.get(k, default)
GetOr(d, k, default) == IF Has(d, k) THEN Get(d, k) ELSE default

(* --------------------------------------------------------- invoke_agent *)
\* the ways agent.get_response may end: a response, a tuple, an exception
GetResponseOutcomes(texts, tupleTexts) ==
    { [kind |-> "response", text |-> t] : t \in texts }
    \cup { [kind |-> "tuple", items |-> << t, "thread_1" >>] : t \in tupleTexts }
    \cup { [kind |-> "raise", exc |-> e] : e \in InvocationFaults }

\* an external call that returns normally (credential, client, get_agent)
Ok == [kind |-> "ok"]

\* an external call that raises
Faults == { [kind |-> "raise", exc |-> e] : e \in ExternalFaults }

\* the answers the environment may give to the next external call: any of
\* the possible ones, or, when the run is replayed against a deterministic
\* stub, the one the stub gave at the same call position
Stubbed(call, possible) ==
    IF replay = << >> THEN possible
    ELSE IF Len(script) < Len(replay) /\ replay[Len(script) + 1].call = call
         THEN { replay[Len(script) + 1].outcome } \cap possible
         ELSE {}

\* mutant: the text of the exception is returned instead of the sentinel
invoke_agent_ExceptionText(o) ==
    IF o.kind = "raise" THEN o.exc
    ELSE IF o.kind = "tuple" THEN o.items[1]
    ELSE o.text

\* mutant: a tuple is handed on as its last element
invoke_agent_TupleLast(o) ==
    IF o.kind = "raise" THEN Sentinel
    ELSE IF o.kind = "tuple" THEN o.items[Len(o.items)]
    ELSE o.text

invoke_agent(o) ==
    IF o.kind = "raise" THEN Sentinel
    ELSE IF o.kind = "tuple" THEN o.items[1]
    ELSE o.text

(* ------------------------------------------------------ query building *)
\* parsed_claim.get(section, {}).get(field) raises AttributeError
GetRaises(p, section) == ~HasGet(p) \/ ~HasGet(DictGet(p, section, EmptyDict))

GetRaisesText(p, section) ==
    IF ~HasGet(p) THEN AttributeErrorText(p)
    ELSE AttributeErrorText(DictGet(p, section, EmptyDict))

\* parsed_claim.get(section, {}).get(field)
SubGet(p, section, field) == DictGet(DictGet(p, section, EmptyDict), field, JNone)

full_claim_query(q) == q \o JSON_FORMAT

PolicyQuery(p) ==
    "Based on the claim details: policy number " \o Format(SubGet(p, "policy_assessor", "policy_number"))
    \o ", claim type " \o Format(SubGet(p, "policy_assessor", "claim_type"))
    \o ", and damage claim amount " \o Format(SubGet(p, "policy_assessor", "damage_claim"))
    \o " euros, determine if the customer is appropriately covered under their policy."

FraudQuery(p) ==
    "Using the following claim description: " \o Format(SubGet(p, "fraud_detector", "claim_description"))
    \o ", evaluate whether there are any red flags or suspicious elements in the claim."

\* mutant: the two assessments are swapped
EvaluatorQuery_Swapped(policy, fraud) ==
    "Policy Assessment: " \o fraud \o "\nFraud Assessment: " \o policy
    \o "\nBased on the above assessments, should the claim be approved or rejected? Provide a concise explanation."

EvaluatorQuery(policy, fraud) ==
    "Policy Assessment: " \o policy \o "\nFraud Assessment: " \o fraud
    \o "\nBased on the above assessments, should the claim be approved or rejected? Provide a concise explanation."

(* ------------------------------------------------------------- the page *)
BlankView ==
    [ banner |-> "none", error |-> Unassigned, policy |-> Unassigned, fraud |-> Unassigned,
      evaluation |-> Unassigned, download |-> Unset, detail |-> << >>, detailShown |-> FALSE ]

\* what the button handler renders once the run has returned
Render(res) ==
    IF Has(res, "error")
    THEN [ BlankView EXCEPT !.banner = "error",
                            !.error = "An error occurred: " \o Get(res, "error") ]
    ELSE [ banner |-> "success", error |-> Unassigned,
           policy |-> GetOr(res, "PolicyAssessorAgent Output", "No output"),
           fraud |-> GetOr(res, "FraudDetectionAgent Output", "No output"),
           evaluation |-> GetOr(res, "ClaimEvaluatorAgent Output", "No output"),
           download |-> GetOr(res, "Parsed Claim", EmptyDict),
           detail |-> res, detailShown |-> TRUE ]

(* --------------------------------------------------------------- actions *)
locals == << structured_claim_json, clarification_output, parsed_claim, policy_query,
             policy_assessment, fraud_query, fraud_assessment, evaluator_query >>

Init ==
    /\ pc = "idle"
    /\ runs = 0
    /\ custom_claim_query = CLAIM_QUERY
    /\ results = << >>
    /\ held = {}
    /\ structured_claim_json = Unassigned
    /\ clarification_output = Unassigned
    /\ parsed_claim = Unset
    /\ policy_query = Unassigned
    /\ policy_assessment = Unassigned
    /\ fraud_query = Unassigned
    /\ fraud_assessment = Unassigned
    /\ evaluator_query = Unassigned
    /\ view = BlankView
    /\ calls = << >>
    /\ outcomes = << >>
    /\ resolves = << >>
    /\ decodes = 0
    /\ raised = << >>
    /\ acquired = << >>
    /\ script = << >>
    /\ replay = << >>
    /\ previous = << >>

\* mutant: the credential is never closed
ExitAsyncWith_LeaksCredential(h) == h \cap {"creds"}

\* leaving the async-with blocks: what is still held afterwards
ExitAsyncWith(h) == {}

\* `return results`: both async-with blocks are left, asyncio.run returns and
\* the button handler renders the page
Return(res) ==
    /\ results' = res
    /\ held' = ExitAsyncWith(held)
    /\ view' = Render(res)
    /\ pc' = "idle"

\* mutant: the except clause starts from a fresh dict
Except_LosesResults(res, e) ==
    /\ raised' = Append(raised, e)
    /\ Return(<< [key |-> "error", val |-> e] >>)

\* an exception reaches `except Exception as e`: results["error"] = str(e)
Except(res, e) ==
    /\ raised' = Append(raised, e)
    /\ Return(Put(res, "error", e))

\* the "Process Claim" button: asyncio.run(process_claim_run_agents(query))
\* up to the entry of DefaultAzureCredential
ClickProcessClaim ==
    /\ pc = "idle"
    /\ runs < MaxRuns
    /\ runs' = runs + 1
    /\ \E q \in Queries, rerun \in BOOLEAN :
         /\ rerun => (runs >= 1 /\ q = custom_claim_query)
         /\ custom_claim_query' = q
         /\ replay' = IF rerun THEN script ELSE << >>
         /\ previous' = IF rerun THEN results ELSE << >>
    /\ script' = << >>
    /\ results' = << >>
    /\ held' = {}
    /\ structured_claim_json' = Unassigned
    /\ clarification_output' = Unassigned
    /\ parsed_claim' = Unset
    /\ policy_query' = Unassigned
    /\ policy_assessment' = Unassigned
    /\ fraud_query' = Unassigned
    /\ fraud_assessment' = Unassigned
    /\ evaluator_query' = Unassigned
    /\ view' = BlankView
    /\ calls' = << >>
    /\ outcomes' = << >>
    /\ resolves' = << >>
    /\ decodes' = 0
    /\ raised' = << >>
    /\ acquired' = << >>
    /\ pc' = "creds"

\* line 88 entered; line 89 starts creating the client
CredentialEntered ==
    /\ pc = "creds"
    /\ Ok \in Stubbed("creds", {Ok})
    /\ script' = Append(script, [call |-> "creds", outcome |-> Ok])
    /\ UNCHANGED << replay, previous >>
    /\ held' = held \cup {"creds"}
    /\ acquired' = Append(acquired, "creds")
    /\ pc' = "client"
    /\ UNCHANGED << runs, custom_claim_query, results, locals, view, calls, outcomes,
                    resolves, decodes, raised >>

\* line 88 or line 89 raises
ConnectionFault ==
    /\ pc \in {"creds", "client"}
    /\ UNCHANGED << replay, previous >>
    /\ \E o \in Stubbed(pc, Faults) :
         /\ Except(results, o.exc)
         /\ script' = Append(script, [call |-> pc, outcome |-> o])
    /\ UNCHANGED << runs, custom_claim_query, locals, calls, outcomes, resolves,
                    decodes, acquired >>

\* line 89 entered; line 94 asks for the ClaimHandler definition
ClientEntered ==
    /\ pc = "client"
    /\ Ok \in Stubbed("client", {Ok})
    /\ script' = Append(script, [call |-> "client", outcome |-> Ok])
    /\ UNCHANGED << replay, previous >>
    /\ held' = held \cup {"client"}
    /\ acquired' = Append(acquired, "client")
    /\ resolves' = Append(resolves, AGENTS_AND_QUERIES.ClaimHandlerAgent.id)
    /\ pc' = "get_handler"
    /\ UNCHANGED << runs, custom_claim_query, results, locals, view, calls, outcomes,
                    decodes, raised >>

\* mutant: a get_agent fault is turned into the sentinel output of the stage
ResolveFault_Sentinel ==
    /\ pc \in {"get_handler", "get_policy", "get_fraud", "get_evaluator"}
    /\ UNCHANGED << replay, previous >>
    /\ \E o \in Stubbed("get_agent", Faults) :
         /\ Return(Put(results,
                       CASE pc = "get_handler" -> "ClaimHandlerAgent Output"
                         [] pc = "get_policy" -> "PolicyAssessorAgent Output"
                         [] pc = "get_fraud" -> "FraudDetectionAgent Output"
                         [] OTHER -> "ClaimEvaluatorAgent Output",
                       Sentinel))
         /\ script' = Append(script, [call |-> "get_agent", outcome |-> o])
    /\ UNCHANGED << runs, custom_claim_query, locals, calls, outcomes, resolves,
                    decodes, acquired, raised >>

\* client.agents.get_agent raises (lines 94, 135, 153, 169)
ResolveFault ==
    /\ pc \in {"get_handler", "get_policy", "get_fraud", "get_evaluator"}
    /\ UNCHANGED << replay, previous >>
    /\ \E o \in Stubbed("get_agent", Faults) :
         /\ Except(results, o.exc)
         /\ script' = Append(script, [call |-> "get_agent", outcome |-> o])
    /\ UNCHANGED << runs, custom_claim_query, locals, calls, outcomes, resolves,
                    decodes, acquired >>

\* lines 94-98: the ClaimHandler is resolved and sent the full query
HandlerResolved ==
    /\ pc = "get_handler"
    /\ Ok \in Stubbed("get_agent", {Ok})
    /\ script' = Append(script, [call |-> "get_agent", outcome |-> Ok])
    /\ UNCHANGED << replay, previous >>
    /\ calls' = Append(calls, [ agent |-> "ClaimHandlerAgent",
                                query |-> full_claim_query(custom_claim_query) ])
    /\ pc' = "invoke_handler"
    /\ UNCHANGED << runs, custom_claim_query, results, held, locals, view, outcomes,
                    resolves, decodes, raised, acquired >>

\* mutant: the clarification answer replaces the recorded ClaimHandler output
Proceed_RecordsClarification(res, p) ==
    LET res0 == IF pc = "invoke_clarification"
                THEN Put(res, "ClaimHandlerAgent Output", clarification_output')
                ELSE res
    IN  /\ parsed_claim' = p
        /\ IF GetRaises(p, "policy_assessor")
           THEN /\ Except(Put(res0, "Parsed Claim", p), GetRaisesText(p, "policy_assessor"))
                /\ UNCHANGED << policy_query, resolves >>
           ELSE /\ results' = Put(res0, "Parsed Claim", p)
                /\ policy_query' = PolicyQuery(p)
                /\ resolves' = Append(resolves, AGENTS_AND_QUERIES.PolicyAssessorAgent.id)
                /\ pc' = "get_policy"
                /\ UNCHANGED << held, view, raised >>

\* lines 121-135: record the parsed claim, build the policy query and ask
\* for the PolicyAssessor definition
Proceed(res, p) ==
    /\ parsed_claim' = p
    /\ IF GetRaises(p, "policy_assessor")
       THEN /\ Except(Put(res, "Parsed Claim", p), GetRaisesText(p, "policy_assessor"))
            /\ UNCHANGED << policy_query, resolves >>
       ELSE /\ results' = Put(res, "Parsed Claim", p)
            /\ policy_query' = PolicyQuery(p)
            /\ resolves' = Append(resolves, AGENTS_AND_QUERIES.PolicyAssessorAgent.id)
            /\ pc' = "get_policy"
            /\ UNCHANGED << held, view, raised >>

\* lines 98-112 (and on to 135 when the answer decodes)
HandlerAnswered ==
    /\ pc = "invoke_handler"
    /\ UNCHANGED << replay, previous >>
    /\ \E o \in Stubbed("get_response", GetResponseOutcomes(HandlerTexts, {TxtFull, TxtProse})) :
         LET r    == invoke_agent(o)
             res1 == Put(results, "ClaimHandlerAgent Output", r)
             p    == json_loads(r)
         IN  /\ structured_claim_json' = r
             /\ outcomes' = Append(outcomes, o.kind)
             /\ script' = Append(script, [call |-> "get_response", outcome |-> o])
             /\ decodes' = decodes + 1
             /\ IF DecodeFails(p)
                THEN /\ results' = res1
                     /\ calls' = Append(calls, [ agent |-> "ClaimHandlerAgent",
                                                 query |-> clarification_query ])
                     /\ pc' = "invoke_clarification"
                     /\ UNCHANGED << parsed_claim, policy_query, resolves, held, view, raised >>
                ELSE /\ Proceed(res1, p)
                     /\ UNCHANGED calls
    /\ UNCHANGED << runs, custom_claim_query, clarification_output, policy_assessment,
                    fraud_query, fraud_assessment, evaluator_query, acquired >>

\* mutant: the `return results` of line 119 is missing
StopProcess_NoReturn(res) ==
    /\ Proceed(Put(res, "error", FatalParseError), EmptyDict)
    /\ UNCHANGED calls

\* mutant: the clarification is retried instead of giving up
StopProcess_Retry(res) ==
    IF decodes < 3
    THEN /\ results' = res
         /\ calls' = Append(calls, [ agent |-> "ClaimHandlerAgent", query |-> clarification_query ])
         /\ pc' = "invoke_clarification"
         /\ UNCHANGED << parsed_claim, policy_query, resolves, raised, held, view >>
    ELSE /\ Return(Put(res, "error", FatalParseError))
         /\ UNCHANGED << parsed_claim, policy_query, resolves, raised, calls >>

\* mutant: the failure is recorded but the coroutine never returns
StopProcess_Blocks(res) ==
    /\ results' = Put(res, "error", FatalParseError)
    /\ pc' = "blocked"
    /\ UNCHANGED << held, view, parsed_claim, policy_query, resolves, raised, calls >>

\* lines 116-119: the clarification answer does not decode either
StopProcess(res) ==
    /\ Return(Put(res, "error", FatalParseError))
    /\ UNCHANGED << parsed_claim, policy_query, resolves, raised, calls >>

\* lines 112-119 (and on to 135 when the answer decodes)
ClarificationAnswered ==
    /\ pc = "invoke_clarification"
    /\ UNCHANGED << replay, previous >>
    /\ \E o \in Stubbed("get_response", GetResponseOutcomes(HandlerTexts, {TxtFull, TxtProse})) :
         LET r == invoke_agent(o)
             p == json_loads(r)
         IN  /\ clarification_output' = r
             /\ outcomes' = Append(outcomes, o.kind)
             /\ script' = Append(script, [call |-> "get_response", outcome |-> o])
             /\ decodes' = decodes + 1
             /\ IF DecodeFails(p)
                THEN StopProcess(results)
                ELSE Proceed(results, p) /\ UNCHANGED calls
    /\ UNCHANGED << runs, custom_claim_query, structured_claim_json, policy_assessment,
                    fraud_query, fraud_assessment, evaluator_query, acquired >>

\* lines 135-139: the PolicyAssessor is resolved and sent the policy query
PolicyResolved ==
    /\ pc = "get_policy"
    /\ Ok \in Stubbed("get_agent", {Ok})
    /\ script' = Append(script, [call |-> "get_agent", outcome |-> Ok])
    /\ UNCHANGED << replay, previous >>
    /\ calls' = Append(calls, [ agent |-> "PolicyAssessorAgent", query |-> policy_query ])
    /\ pc' = "invoke_policy"
    /\ UNCHANGED << runs, custom_claim_query, results, held, locals, view, outcomes,
                    resolves, decodes, raised, acquired >>

\* lines 139-153
PolicyAnswered ==
    /\ pc = "invoke_policy"
    /\ UNCHANGED << replay, previous >>
    /\ \E o \in Stubbed("get_response", GetResponseOutcomes(AssessmentTexts, {TxtCovered})) :
         LET r    == invoke_agent(o)
             res1 == Put(results, "PolicyAssessorAgent Output", r)
         IN  /\ policy_assessment' = r
             /\ outcomes' = Append(outcomes, o.kind)
             /\ script' = Append(script, [call |-> "get_response", outcome |-> o])
             /\ IF GetRaises(parsed_claim, "fraud_detector")
                THEN /\ Except(res1, GetRaisesText(parsed_claim, "fraud_detector"))
                     /\ UNCHANGED << fraud_query, resolves >>
                ELSE /\ results' = res1
                     /\ fraud_query' = FraudQuery(parsed_claim)
                     /\ resolves' = Append(resolves, AGENTS_AND_QUERIES.FraudDetectionAgent.id)
                     /\ pc' = "get_fraud"
                     /\ UNCHANGED << held, view, raised >>
    /\ UNCHANGED << runs, custom_claim_query, structured_claim_json, clarification_output,
                    parsed_claim, policy_query, fraud_assessment, evaluator_query,
                    calls, decodes, acquired >>

\* lines 153-157
FraudResolved ==
    /\ pc = "get_fraud"
    /\ Ok \in Stubbed("get_agent", {Ok})
    /\ script' = Append(script, [call |-> "get_agent", outcome |-> Ok])
    /\ UNCHANGED << replay, previous >>
    /\ calls' = Append(calls, [ agent |-> "FraudDetectionAgent", query |-> fraud_query ])
    /\ pc' = "invoke_fraud"
    /\ UNCHANGED << runs, custom_claim_query, results, held, locals, view, outcomes,
                    resolves, decodes, raised, acquired >>

\* lines 157-169
FraudAnswered ==
    /\ pc = "invoke_fraud"
    /\ UNCHANGED << replay, previous >>
    /\ \E o \in Stubbed("get_response", GetResponseOutcomes(AssessmentTexts, {TxtCovered})) :
         LET r == invoke_agent(o)
         IN  /\ fraud_assessment' = r
             /\ outcomes' = Append(outcomes, o.kind)
             /\ script' = Append(script, [call |-> "get_response", outcome |-> o])
             /\ results' = Put(results, "FraudDetectionAgent Output", r)
             /\ evaluator_query' = EvaluatorQuery(policy_assessment, r)
    /\ resolves' = Append(resolves, AGENTS_AND_QUERIES.ClaimEvaluatorAgent.id)
    /\ pc' = "get_evaluator"
    /\ UNCHANGED << runs, custom_claim_query, held, structured_claim_json,
                    clarification_output, parsed_claim, policy_query, policy_assessment,
                    fraud_query, view, calls, decodes, raised, acquired >>

\* lines 169-172
EvaluatorResolved ==
    /\ pc = "get_evaluator"
    /\ Ok \in Stubbed("get_agent", {Ok})
    /\ script' = Append(script, [call |-> "get_agent", outcome |-> Ok])
    /\ UNCHANGED << replay, previous >>
    /\ calls' = Append(calls, [ agent |-> "ClaimEvaluatorAgent", query |-> evaluator_query ])
    /\ pc' = "invoke_evaluator"
    /\ UNCHANGED << runs, custom_claim_query, results, held, locals, view, outcomes,
                    resolves, decodes, raised, acquired >>

\* lines 172-178
EvaluatorAnswered ==
    /\ pc = "invoke_evaluator"
    /\ UNCHANGED << replay, previous >>
    /\ \E o \in Stubbed("get_response", GetResponseOutcomes(AssessmentTexts, {TxtCovered})) :
         /\ outcomes' = Append(outcomes, o.kind)
         /\ script' = Append(script, [call |-> "get_response", outcome |-> o])
         /\ Return(Put(results, "ClaimEvaluatorAgent Output", invoke_agent(o)))
    /\ UNCHANGED << runs, custom_claim_query, locals, calls, resolves, decodes,
                    raised, acquired >>

Next ==
    \/ ClickProcessClaim
    \/ CredentialEntered
    \/ ConnectionFault
    \/ ClientEntered
    \/ ResolveFault
    \/ HandlerResolved
    \/ HandlerAnswered
    \/ ClarificationAnswered
    \/ PolicyResolved
    \/ PolicyAnswered
    \/ FraudResolved
    \/ FraudAnswered
    \/ EvaluatorResolved
    \/ EvaluatorAnswered

Spec == Init /\ [][Next]_vars

(* ------------------------------------------------ vocabulary of the claims *)
\* the run has returned and the page is rendered
Returned == pc = "idle" /\ runs > 0

\* number of get_response calls made to the agent in this run
CountCalls(a) == Cardinality({ i \in 1..Len(calls) : calls[i].agent = a })

\* number of get_agent calls for the agent in this run
CountResolves(a) == Cardinality({ i \in 1..Len(resolves) : resolves[i] = AGENTS_AND_QUERIES[a].id })

DownstreamAgents == { "PolicyAssessorAgent", "FraudDetectionAgent", "ClaimEvaluatorAgent" }

\* the first ClaimHandler answer has arrived and json.loads rejects it
FirstDecodeFailed ==
    structured_claim_json # Unassigned /\ json_loads(structured_claim_json) = JSONDecodeError

\* the first ClaimHandler answer has arrived and json.loads accepts it
FirstDecodeSucceeded ==
    structured_claim_json # Unassigned /\ json_loads(structured_claim_json) # JSONDecodeError

\* the clarification answer has arrived and json.loads rejects it
ClarificationDecodeFailed ==
    clarification_output # Unassigned /\ json_loads(clarification_output) = JSONDecodeError

\* the clarification answer has arrived and json.loads accepts it
ClarificationDecodeSucceeded ==
    clarification_output # Unassigned /\ json_loads(clarification_output) # JSONDecodeError

\* the states of the pipeline of section 4.3, read off the result dict
PipelineState ==
    IF Has(results, "error") THEN "Failed"
    ELSE IF Has(results, "ClaimEvaluatorAgent Output") THEN "EvaluatorDone"
    ELSE IF Has(results, "FraudDetectionAgent Output") THEN "FraudDone"
    ELSE IF Has(results, "PolicyAssessorAgent Output") THEN "PolicyDone"
    ELSE IF Has(results, "Parsed Claim") THEN "HandlerDone"
    ELSE "Start"

(* ------------------------------------------------------------------ C1 *)
\* C1: when both the first ClaimHandler answer and the clarification answer
\* fail JSON decoding, the run has returned with results["error"] equal to
\* the fatal parse error, and PolicyAssessor, FraudDetector and
\* ClaimEvaluator were neither resolved nor invoked.
C1_FatalParseStops ==
    (FirstDecodeFailed /\ ClarificationDecodeFailed) =>
        /\ Returned
        /\ Has(results, "error")
        /\ Get(results, "error") = FatalParseError
        /\ \A a \in DownstreamAgents : CountCalls(a) = 0 /\ CountResolves(a) = 0

C1_Witness ==
    /\ FirstDecodeFailed
    /\ ClarificationDecodeFailed
    /\ Returned
    /\ structured_claim_json = TxtProse
    /\ clarification_output = TxtMarkdown

(* ------------------------------------------------------------------ C2 *)
\* C2: in every run at most two json.loads attempts are made, the
\* ClaimHandler is invoked at most twice, and the clarification query is
\* sent at most once.
C2_AtMostOneClarification ==
    /\ decodes <= 2
    /\ CountCalls("ClaimHandlerAgent") <= 2
    /\ Cardinality({ i \in 1..Len(calls) : calls[i].query = clarification_query }) <= 1

C2_Witness ==
    /\ Returned
    /\ decodes = 2
    /\ CountCalls("ClaimHandlerAgent") = 2
    /\ Cardinality({ i \in 1..Len(calls) : calls[i].query = clarification_query }) = 1
    /\ ClarificationDecodeFailed

(* ------------------------------------------------------------------ C3 *)
\* every one of the three downstream agents was invoked exactly once, in
\* pipeline order, after the ClaimHandler calls
DownstreamInvokedInOrder ==
    /\ Len(calls) >= 3
    /\ calls[Len(calls) - 2].agent = "PolicyAssessorAgent"
    /\ calls[Len(calls) - 1].agent = "FraudDetectionAgent"
    /\ calls[Len(calls)].agent = "ClaimEvaluatorAgent"
    /\ \A a \in DownstreamAgents : CountCalls(a) = 1

\* the run was ended by an exception caught at line 175, whose text is the
\* top-level error
FailedByUnexpectedFault ==
    /\ Len(raised) = 1
    /\ Has(results, "error")
    /\ Get(results, "error") = raised[1]

\* C3 as stated: whenever the first ClaimHandler answer is invalid JSON and
\* the clarification answer is valid JSON, the returned run has invoked the
\* ClaimHandler twice and each downstream agent, and ended in EvaluatorDone
\* with no top-level error.
C3_Original ==
    (Returned /\ FirstDecodeFailed /\ ClarificationDecodeSucceeded) =>
        /\ CountCalls("ClaimHandlerAgent") = 2
        /\ DownstreamInvokedInOrder
        /\ PipelineState = "EvaluatorDone"
        /\ ~Has(results, "error")

\* C3 amended: whenever the first ClaimHandler answer is invalid JSON and the
\* clarification answer is valid JSON, the ClaimHandler has been invoked
\* exactly twice and the decoded clarification answer is recorded as
\* "Parsed Claim"; the returned run either ended in EvaluatorDone with no
\* top-level error after invoking each downstream agent once, or was ended
\* by an unexpected fault whose text is the top-level error.
C3_ClarificationRecovers ==
    (FirstDecodeFailed /\ ClarificationDecodeSucceeded) =>
        /\ CountCalls("ClaimHandlerAgent") = 2
        /\ decodes = 2
        /\ Has(results, "Parsed Claim")
        /\ Get(results, "Parsed Claim") = json_loads(clarification_output)
        /\ Returned =>
             \/ /\ ~Has(results, "error")
                /\ PipelineState = "EvaluatorDone"
                /\ DownstreamInvokedInOrder
             \/ FailedByUnexpectedFault

C3_Witness ==
    /\ Returned
    /\ structured_claim_json = TxtProse
    /\ clarification_output = TxtFull
    /\ CountCalls("ClaimHandlerAgent") = 2
    /\ PipelineState = "EvaluatorDone"

(* ------------------------------------------------------------------ C4 *)
\* C4: when the first ClaimHandler answer is valid JSON it is decoded at the
\* first attempt and recorded as "Parsed Claim"; no clarification query is
\* sent and the ClaimHandler is invoked exactly once.
C4_NoClarificationWhenValid ==
    FirstDecodeSucceeded =>
        /\ decodes = 1
        /\ CountCalls("ClaimHandlerAgent") = 1
        /\ \A i \in 1..Len(calls) : calls[i].query # clarification_query
        /\ clarification_output = Unassigned
        /\ Has(results, "Parsed Claim")
        /\ Get(results, "Parsed Claim") = json_loads(structured_claim_json)

C4_Witness ==
    /\ Returned
    /\ structured_claim_json = TxtFull
    /\ CountCalls("ClaimHandlerAgent") = 1
    /\ PipelineState = "EvaluatorDone"

(* ------------------------------------------------------------------ C5 *)
\* the get_response call made to the agent raised
InvocationRaised(a) ==
    \E i \in 1..Len(outcomes) : calls[i].agent = a /\ outcomes[i] = "raise"

\* C5 as stated: when the PolicyAssessor invocation raised, the returned run
\* has the sentinel as "PolicyAssessorAgent Output" and has invoked the
\* FraudDetector and then the ClaimEvaluator.
C5_Original ==
    (Returned /\ InvocationRaised("PolicyAssessorAgent")) =>
        /\ Has(results, "PolicyAssessorAgent Output")
        /\ Get(results, "PolicyAssessorAgent Output") = Sentinel
        /\ DownstreamInvokedInOrder

\* C5 amended: when the PolicyAssessor invocation raised, the sentinel is
\* recorded as "PolicyAssessorAgent Output" and the pipeline goes on to the
\* fraud stage; the run fails only through a separate unexpected fault
\* caught at line 175, and a run that returns without a top-level error has
\* invoked the FraudDetector and then the ClaimEvaluator.
C5_PolicyFaultBecomesSentinel ==
    InvocationRaised("PolicyAssessorAgent") =>
        /\ Has(results, "PolicyAssessorAgent Output")
        /\ Get(results, "PolicyAssessorAgent Output") = Sentinel
        /\ policy_assessment = Sentinel
        /\ Has(results, "error") => FailedByUnexpectedFault
        /\ ~Returned => pc \in {"get_fraud", "invoke_fraud", "get_evaluator", "invoke_evaluator"}
        /\ (Returned /\ ~Has(results, "error")) =>
             /\ DownstreamInvokedInOrder
             /\ PipelineState = "EvaluatorDone"

C5_Witness ==
    /\ Returned
    /\ InvocationRaised("PolicyAssessorAgent")
    /\ ~Has(results, "error")
    /\ CountCalls("FraudDetectionAgent") = 1
    /\ CountCalls("ClaimEvaluatorAgent") = 1

(* ------------------------------------------------------------------ C6 *)
\* every output assigned to a local so far is in the result dict under its label
RecordedOutputsPresent(res, handlerOut, parsed, policyOut, fraudOut) ==
    /\ handlerOut # Unassigned =>
         Has(res, "ClaimHandlerAgent Output") /\ Get(res, "ClaimHandlerAgent Output") = handlerOut
    /\ parsed # Unset =>
         Has(res, "Parsed Claim") /\ Get(res, "Parsed Claim") = parsed
    /\ policyOut # Unassigned =>
         Has(res, "PolicyAssessorAgent Output") /\ Get(res, "PolicyAssessorAgent Output") = policyOut
    /\ fraudOut # Unassigned =>
         Has(res, "FraudDetectionAgent Output") /\ Get(res, "FraudDetectionAgent Output") = fraudOut

\* C6: a step in which an unexpected fault reaches the except clause ends
\* the run with the fault's text as results["error"], makes no further
\* get_agent or get_response call, and keeps every entry the result dict
\* already had, and every stage output received so far, unchanged; once a
\* run has failed this way no agent is resolved or invoked in it any more.
C6_UnexpectedFaultAborts ==
    [][ /\ (raised' # raised /\ raised' # << >>) =>
             /\ pc' = "idle"
             /\ Has(results', "error")
             /\ Get(results', "error") = raised'[Len(raised')]
             /\ calls' = calls
             /\ resolves' = resolves
             /\ Len(results') > Len(results)
             /\ \A i \in 1..Len(results) : results'[i] = results[i]
             /\ RecordedOutputsPresent(results', structured_claim_json', parsed_claim',
                                       policy_assessment', fraud_assessment')
        /\ (raised # << >> /\ runs' = runs) => UNCHANGED << calls, resolves, results >>
      ]_vars

C6_Witness ==
    /\ Returned
    /\ Len(raised) = 1
    /\ raised[1] \in ExternalFaults
    /\ Keys(results) = << "ClaimHandlerAgent Output", "Parsed Claim",
                          "PolicyAssessorAgent Output", "FraudDetectionAgent Output", "error" >>
    /\ CountCalls("ClaimEvaluatorAgent") = 0

(* ------------------------------------------------------------------ C7 *)
\* C7 as stated: a ClaimHandler answer that decodes as JSON is accepted
\* whatever its shape: a run that recorded a "Parsed Claim" fails only
\* through a fault of an external service, never through the shape of the
\* decoded value.
C7_Original ==
    (Has(results, "Parsed Claim") /\ Has(results, "error")) =>
        Get(results, "error") \in ExternalFaults

(* ------------------------------------------------------------------ C8 *)
\* the decoded claim is a JSON object whose policy_assessor and
\* fraud_detector entries are objects or absent
SubObjectsAbsentOrObjects(p) ==
    /\ p.kind = "dict"
    /\ \A section \in {"policy_assessor", "fraud_detector"} :
         section \in DOMAIN (p.m) => (p.m)[section].kind = "dict"

\* some subfield or sub-object of the claim schema is missing
SomethingMissing(p) ==
    \/ "policy_assessor" \notin DOMAIN (p.m)
    \/ "fraud_detector" \notin DOMAIN (p.m)
    \/ DOMAIN ((p.m)["policy_assessor"].m) # {"policy_number", "claim_type", "damage_claim"}
    \/ DOMAIN ((p.m)["fraud_detector"].m) # {"claim_description"}

\* C8: when the parsed claim is a JSON object whose sub-objects are absent
\* or are objects lacking some or all subfields, building the policy and
\* fraud queries raises nothing: the only way the run fails is a fault of an
\* external service, and a run that returns without one has reached
\* EvaluatorDone.
C8_MissingFieldsTolerated ==
    (parsed_claim # Unset /\ SubObjectsAbsentOrObjects(parsed_claim)) =>
        /\ \A i \in 1..Len(raised) : raised[i] \in ExternalFaults
        /\ (Returned /\ raised = << >>) =>
             /\ PipelineState = "EvaluatorDone"
             /\ DownstreamInvokedInOrder

C8_Witness ==
    /\ Returned
    /\ structured_claim_json = TxtEmptyObject
    /\ SubObjectsAbsentOrObjects(parsed_claim)
    /\ SomethingMissing(parsed_claim)
    /\ PipelineState = "EvaluatorDone"
    /\ policy_query = "Based on the claim details: policy number None, claim type None, and damage claim amount None euros, determine if the customer is appropriately covered under their policy."
    /\ fraud_query = "Using the following claim description: None, evaluate whether there are any red flags or suspicious elements in the claim."

(* ------------------------------------------------------------------ C9 *)
AgentSeq == [ i \in 1..Len(calls) |-> calls[i].agent ]

IsPrefix(a, b) == Len(a) <= Len(b) /\ \A i \in 1..Len(a) : a[i] = b[i]

InvocationOrders ==
    { << "ClaimHandlerAgent", "PolicyAssessorAgent", "FraudDetectionAgent", "ClaimEvaluatorAgent" >>,
      << "ClaimHandlerAgent", "ClaimHandlerAgent", "PolicyAssessorAgent", "FraudDetectionAgent",
         "ClaimEvaluatorAgent" >> }

Rank(st) ==
    CASE st = "Start" -> 0
      [] st = "HandlerDone" -> 1
      [] st = "PolicyDone" -> 2
      [] st = "FraudDone" -> 3
      [] st = "EvaluatorDone" -> 4
      [] OTHER -> 5

\* the pipeline state in which the agent is invoked
InvokedIn(a) ==
    CASE a = "ClaimHandlerAgent" -> "Start"
      [] a = "PolicyAssessorAgent" -> "HandlerDone"
      [] a = "FraudDetectionAgent" -> "PolicyDone"
      [] OTHER -> "FraudDone"

C9_OrderInv ==
    /\ \E order \in InvocationOrders : IsPrefix(AgentSeq, order)
    /\ Len(outcomes) <= Len(calls)
    /\ Len(calls) <= Len(outcomes) + 1
    /\ Len(calls) = Len(outcomes) + 1 =>
         /\ pc \in {"invoke_handler", "invoke_clarification", "invoke_policy", "invoke_fraud",
                    "invoke_evaluator"}
         /\ PipelineState = InvokedIn(calls[Len(calls)].agent)
    /\ PipelineState \in {"Failed", "EvaluatorDone"} => Returned

C9_OrderStep ==
    runs' = runs =>
        /\ \/ PipelineState' = PipelineState
           \/ PipelineState' = "Failed"
           \/ Rank(PipelineState') = Rank(PipelineState) + 1
        /\ PipelineState \in {"Failed", "EvaluatorDone"} => UNCHANGED << calls, resolves, results >>
        /\ calls' # calls =>
             /\ Len(calls') = Len(calls) + 1
             /\ Len(outcomes') = Len(calls)
             /\ PipelineState' = InvokedIn(calls'[Len(calls')].agent)

\* C9: the pipeline state only moves Start -> HandlerDone -> PolicyDone ->
\* FraudDone -> EvaluatorDone or to Failed; the agents are invoked in the
\* order ClaimHandler (once or twice), PolicyAssessor, FraudDetector,
\* ClaimEvaluator, each only after the previous call has ended and in the
\* state of its predecessor; no stage is skipped or repeated; nothing is
\* invoked once Failed or EvaluatorDone is reached.
C9_PipelineOrder == [](C9_OrderInv) /\ [][C9_OrderStep]_vars

C9_Witness ==
    /\ Returned
    /\ PipelineState = "EvaluatorDone"
    /\ AgentSeq = << "ClaimHandlerAgent", "ClaimHandlerAgent", "PolicyAssessorAgent",
                     "FraudDetectionAgent", "ClaimEvaluatorAgent" >>

(* ----------------------------------------------------------------- C10 *)
\* the label under which the output of the agent's stage is recorded
OutputKey(a) == a \o " Output"

\* the agent whose stage precedes the agent's stage
Predecessor(a) ==
    CASE a = "PolicyAssessorAgent" -> "ClaimHandlerAgent"
      [] a = "FraudDetectionAgent" -> "PolicyAssessorAgent"
      [] OTHER -> "FraudDetectionAgent"

\* C10: whenever the agent of a stage has been resolved (and so before it is
\* invoked) the output of the previous stage is already in the result dict;
\* the ClaimEvaluator is invoked only with both "PolicyAssessorAgent Output"
\* and "FraudDetectionAgent Output" recorded, and its query embeds exactly
\* those two recorded values.
C10_RecordedBeforeNextStage ==
    /\ \A a \in DownstreamAgents :
         CountResolves(a) > 0 =>
            /\ Has(results, OutputKey(Predecessor(a)))
            /\ Has(results, "Parsed Claim")
    /\ RecordedOutputsPresent(results, structured_claim_json, parsed_claim,
                              policy_assessment, fraud_assessment)
    /\ \A i \in 1..Len(calls) :
         calls[i].agent = "ClaimEvaluatorAgent" =>
            /\ Has(results, "PolicyAssessorAgent Output")
            /\ Has(results, "FraudDetectionAgent Output")
            /\ calls[i].query =
                 "Policy Assessment: " \o Get(results, "PolicyAssessorAgent Output")
                 \o "\nFraud Assessment: " \o Get(results, "FraudDetectionAgent Output")
                 \o "\nBased on the above assessments, should the claim be approved or rejected? Provide a concise explanation."

C10_Witness ==
    /\ pc = "invoke_evaluator"
    /\ Get(results, "PolicyAssessorAgent Output") = TxtCovered
    /\ Get(results, "FraudDetectionAgent Output") = Sentinel
    /\ calls[Len(calls)].agent = "ClaimEvaluatorAgent"

(* ----------------------------------------------------------------- C11 *)
StageOutputKeys ==
    { "ClaimHandlerAgent Output", "PolicyAssessorAgent Output", "FraudDetectionAgent Output",
      "ClaimEvaluatorAgent Output" }

\* no get_response call raised and no exception reached the except clause
NoFaults == raised = << >> /\ \A i \in 1..Len(outcomes) : outcomes[i] # "raise"

\* C11: when the ClaimHandler answers the JSON object of the claim schema
\* (the stub of the end-to-end scenario) and nothing faults, the returned
\* result holds the four stage outputs, no "error", and a "Parsed Claim"
\* with exactly the fields and values of the answer.
C11_EndToEnd ==
    (Returned /\ structured_claim_json = TxtFull /\ NoFaults) =>
        /\ \A k \in StageOutputKeys : Has(results, k)
        /\ Cardinality({ i \in 1..Len(results) : results[i].key \in StageOutputKeys }) = 4
        /\ ~Has(results, "error")
        /\ Get(results, "ClaimHandlerAgent Output") = TxtFull
        /\ Has(results, "Parsed Claim")
        /\ Get(results, "Parsed Claim") =
             [ kind |-> "dict",
               m |-> [ policy_assessor |->
                         [ kind |-> "dict",
                           m |-> [ policy_number |-> [kind |-> "str", s |-> "2"],
                                   claim_type |-> [kind |-> "str", s |-> "B"],
                                   damage_claim |-> [kind |-> "str", s |-> "4000"] ] ],
                       fraud_detector |->
                         [ kind |-> "dict",
                           m |-> [ claim_description |->
                                     [kind |-> "str", s |-> "rear-ended, bumper replacement"] ] ] ] ]
        /\ view.banner = "success"

C11_Witness ==
    /\ Returned
    /\ custom_claim_query = CLAIM_QUERY
    /\ structured_claim_json = TxtFull
    /\ NoFaults
    /\ Len(results) = 5
    /\ Get(results, "PolicyAssessorAgent Output") = TxtCovered
    /\ Get(results, "FraudDetectionAgent Output") = TxtNoRedFlags

(* ----------------------------------------------------------------- C12 *)
\* C12: the credential and the client are each entered at most once per
\* run, the client only inside the credential; nothing is held that was not
\* entered; and when the run has returned (after the evaluator, after the
\* fatal parse error or after an unexpected fault) neither is still held.
C12_ResourcesReleased ==
    /\ IsPrefix(acquired, << "creds", "client" >>)
    /\ held \subseteq { acquired[i] : i \in 1..Len(acquired) }
    /\ pc = "idle" => held = {}
    /\ pc \notin {"idle", "creds", "client"} => held = {"creds", "client"}

C12_Witness ==
    /\ Returned
    /\ acquired = << "creds", "client" >>
    /\ held = {}
    /\ Has(results, "error")
    /\ Get(results, "error") = FatalParseError

(* ----------------------------------------------------------------- C13 *)
\* the steps of a run: the resumption of the pending await
RunStep ==
    \/ CredentialEntered
    \/ ConnectionFault
    \/ ClientEntered
    \/ ResolveFault
    \/ HandlerResolved
    \/ HandlerAnswered
    \/ ClarificationAnswered
    \/ PolicyResolved
    \/ PolicyAnswered
    \/ FraudResolved
    \/ FraudAnswered
    \/ EvaluatorResolved
    \/ EvaluatorAnswered

\* every external call eventually returns or raises: the pending await is
\* eventually resumed
FairSpec == Spec /\ WF_vars(RunStep)

\* C13: provided every external call eventually returns or raises, a run
\* that has started eventually returns, and it returns in EvaluatorDone or
\* in Failed.
C13_RunTerminates ==
    (pc # "idle") ~> (Returned /\ PipelineState \in {"EvaluatorDone", "Failed"})

C13_Witness ==
    /\ Returned
    /\ runs = 1
    /\ PipelineState = "EvaluatorDone"
    /\ decodes = 2
    /\ Len(resolves) = 4

(* ----------------------------------------------------------------- C14 *)
\* C14: a run that was given the same claim query as the previous run and
\* the answers of the same deterministic stub (the same answer or fault at
\* every call position) makes the same external calls and returns a result
\* with the same labels in the same insertion order.
C14_SameStubSameLabels ==
    (Returned /\ replay # << >>) =>
        /\ script = replay
        /\ Keys(results) = Keys(previous)

C14_Witness ==
    /\ Returned
    /\ replay # << >>
    /\ runs = 2
    /\ Keys(results) = << "ClaimHandlerAgent Output", "Parsed Claim",
                          "PolicyAssessorAgent Output", "error" >>

(* ----------------------------------------------------------------- C15 *)
\* C15 as stated: once a run has returned, the detail view shows the whole
\* result dict, whether or not it holds a top-level error.
C15_Original ==
    Returned => (view.detailShown /\ view.detail = results)

(* ----------------------------------------------------------------- C16 *)
\* the answers of the get_response calls of this run, in call order
GetResponseAnswers ==
    SelectSeq(script, LAMBDA e : e.call = "get_response")

\* what the i-th invoke_agent call of the run returned to the pipeline
ReturnedText(i) ==
    IF calls[i].query = clarification_query THEN clarification_output
    ELSE IF calls[i].agent = "ClaimHandlerAgent" THEN structured_claim_json
    ELSE IF calls[i].agent = "PolicyAssessorAgent" THEN policy_assessment
    ELSE IF calls[i].agent = "FraudDetectionAgent" THEN fraud_assessment
    ELSE Get(results, "ClaimEvaluatorAgent Output")

C16_Inv ==
    /\ Len(GetResponseAnswers) = Len(outcomes)
    /\ Len(outcomes) <= Len(calls)
    /\ Len(calls) <= Len(outcomes) + 1
    /\ \A i \in 1..Len(outcomes) :
         LET o == GetResponseAnswers[i].outcome
         IN  /\ o.kind = "raise" => ReturnedText(i) = Sentinel
             /\ o.kind = "tuple" => ReturnedText(i) = o.items[1]
             /\ o.kind = "response" => ReturnedText(i) = o.text

C16_Step ==
    (outcomes' # outcomes /\ runs' = runs) =>
        /\ Len(outcomes') = Len(outcomes) + 1
        /\ Len(script') = Len(script) + 1
        /\ outcomes'[Len(outcomes')] = "raise" =>
             \A i \in 1..Len(raised') : raised'[i] \notin InvocationFaults

\* C16: every invoke_agent call makes exactly one get_response call and
\* hands the pipeline the sentinel when that call raised, the first element
\* when it returned a tuple and the response otherwise; a fault of
\* get_response never reaches the except clause of the pipeline.
C16_InvokeAgentFailsClosed == [](C16_Inv) /\ [][C16_Step]_vars

C16_Witness ==
    /\ Returned
    /\ Len(outcomes) = 5
    /\ outcomes = << "raise", "tuple", "raise", "tuple", "raise" >>
    /\ ~Has(results, "error")

(* ----------------------------------------------------------------- C17 *)
LabelOrder ==
    << "ClaimHandlerAgent Output", "Parsed Claim", "PolicyAssessorAgent Output",
       "FraudDetectionAgent Output", "ClaimEvaluatorAgent Output" >>

\* the labels other than "error", in insertion order
StageKeys(d) == SelectSeq(Keys(d), LAMBDA k : k # "error")

C17_Inv ==
    /\ IsPrefix(StageKeys(results), LabelOrder)
    /\ \A i \in 1..Len(results) : results[i].key = "error" => i = Len(results)
    /\ (Has(results, "error") /\ Get(results, "error") = FatalParseError) =>
         Keys(results) = << "ClaimHandlerAgent Output", "error" >>

C17_Step ==
    runs' = runs =>
        /\ Len(results') >= Len(results)
        /\ \A i \in 1..Len(results) : results'[i] = results[i]

\* C17: the labels of the result dict are always a prefix of ClaimHandler
\* output, Parsed Claim, PolicyAssessor output, FraudDetection output,
\* ClaimEvaluator output, optionally followed by "error" as the last label;
\* within a run no entry is ever overwritten or removed; the fatal parse
\* error only ever appears together with the single label
\* "ClaimHandlerAgent Output".
C17_ResultShape == [](C17_Inv) /\ [][C17_Step]_vars

C17_Witness ==
    /\ Returned
    /\ Keys(results) = << "ClaimHandlerAgent Output", "Parsed Claim", "error" >>
    /\ Len(raised) = 1
    /\ raised[1] \in ExternalFaults

(* ----------------------------------------------------------------- C18 *)
\* C18: when the first ClaimHandler answer failed to decode and the
\* clarification answer decoded, "ClaimHandlerAgent Output" still holds the
\* first answer, no label holds the clarification answer, and "Parsed Claim"
\* is the decode of the clarification answer, not of the recorded output;
\* whenever "Parsed Claim" is the decode of "ClaimHandlerAgent Output" no
\* clarification was made.
C18_ClarificationNotRecorded ==
    /\ (FirstDecodeFailed /\ ClarificationDecodeSucceeded) =>
         /\ Get(results, "ClaimHandlerAgent Output") = structured_claim_json
         /\ \A i \in 1..Len(results) :
              results[i].key # "Parsed Claim" => results[i].val # clarification_output
         /\ Has(results, "Parsed Claim")
         /\ Get(results, "Parsed Claim") = json_loads(clarification_output)
         /\ Get(results, "Parsed Claim") # json_loads(Get(results, "ClaimHandlerAgent Output"))
    /\ (Has(results, "Parsed Claim")
          /\ Get(results, "Parsed Claim") = json_loads(Get(results, "ClaimHandlerAgent Output"))) =>
         /\ clarification_output = Unassigned
         /\ CountCalls("ClaimHandlerAgent") = 1

C18_Witness ==
    /\ Returned
    /\ Has(results, "ClaimHandlerAgent Output")
    /\ Get(results, "ClaimHandlerAgent Output") = Sentinel
    /\ clarification_output = TxtNoDamage
    /\ Has(results, "Parsed Claim")
    /\ Len(results) = 5

(* ----------------------------------------------------------------- C19 *)
AllAgents == DownstreamAgents \cup { "ClaimHandlerAgent" }

\* the agent whose definition the pending get_agent call asks for
ResolvingAgent(at) ==
    CASE at = "get_handler" -> "ClaimHandlerAgent"
      [] at = "get_policy" -> "PolicyAssessorAgent"
      [] at = "get_fraud" -> "FraudDetectionAgent"
      [] OTHER -> "ClaimEvaluatorAgent"

\* this step is the resumption of a get_agent call that raised
GetAgentRaisedStep ==
    /\ runs' = runs
    /\ Len(script') = Len(script) + 1
    /\ script'[Len(script')].call = "get_agent"
    /\ script'[Len(script')].outcome.kind = "raise"

C19_Inv ==
    /\ \A a \in AllAgents :
         /\ CountResolves(a) <= 1
         /\ CountCalls(a) > 0 => CountResolves(a) = 1
    /\ Len(resolves) <= 4
    /\ Has(results, "error") => pc = "idle"

C19_Step ==
    GetAgentRaisedStep =>
        /\ pc' = "idle"
        /\ results' = Append(results, [ key |-> "error",
                                        val |-> script'[Len(script')].outcome.exc ])
        /\ raised' = Append(raised, script'[Len(script')].outcome.exc)
        /\ Get(results', "error") # Sentinel
        /\ ~Has(results', OutputKey(ResolvingAgent(pc)))
        /\ CountCalls(ResolvingAgent(pc)) = 0
        /\ calls' = calls
        /\ resolves' = resolves

\* C19: a get_agent call that raises ends the run in Failed with the text
\* of the fault (not the sentinel) as results["error"]; the stage that was
\* being resolved has no recorded output and was not invoked, and nothing is
\* resolved or invoked afterwards.  Each agent is resolved at most once per
\* run, and every invoked agent, the ClaimHandler of the clarification call
\* included, was resolved exactly once.
C19_ResolveFaultAborts == [](C19_Inv) /\ [][C19_Step]_vars

C19_Witness ==
    /\ Returned
    /\ Len(script) > 0
    /\ script[Len(script)].call = "get_agent"
    /\ script[Len(script)].outcome.kind = "raise"
    /\ CountCalls("ClaimHandlerAgent") = 2
    /\ CountResolves("ClaimHandlerAgent") = 1
    /\ CountResolves("FraudDetectionAgent") = 1
    /\ CountCalls("FraudDetectionAgent") = 0

(* ----------------------------------------------------------------- C20 *)
\* C20: when the first ClaimHandler invocation raises, the sentinel is
\* recorded as "ClaimHandlerAgent Output", no exception reaches the except
\* clause because of it, and the clarification query is sent; when the
\* clarification invocation raises too, the run has returned with the fatal
\* parse error, having invoked the ClaimHandler exactly twice and nothing
\* else.
C20_HandlerFaultIsParseFailure ==
    (Len(outcomes) >= 1 /\ outcomes[1] = "raise") =>
        /\ structured_claim_json = Sentinel
        /\ Get(results, "ClaimHandlerAgent Output") = Sentinel
        /\ Len(calls) >= 2
        /\ calls[2] = [ agent |-> "ClaimHandlerAgent", query |-> clarification_query ]
        /\ (Len(outcomes) >= 2 /\ outcomes[2] = "raise") =>
             /\ Returned
             /\ clarification_output = Sentinel
             /\ Keys(results) = << "ClaimHandlerAgent Output", "error" >>
             /\ Get(results, "error") = FatalParseError
             /\ raised = << >>
             /\ decodes = 2
             /\ Len(calls) = 2
             /\ CountCalls("ClaimHandlerAgent") = 2
             /\ Len(resolves) = 1

C20_Witness ==
    /\ Returned
    /\ outcomes = << "raise", "raise" >>
    /\ Len(calls) = 2

====
